---- MODULE Spec2Model ----
(***************************************************************************)
(* Model of gravity.py: the window-physics loop update_windows, the mouse  *)
(* callback on_click, and the window manager the loop talks to.            *)
(*                                                                         *)
(* Numbers.  The program computes in double precision with                 *)
(* delta_time = 1 / UPDATE_RATE_HZ.  The model is fixed point:             *)
(*   a position is an integer number of 1/SCALE pixel, SCALE = HZ * HZ;    *)
(*   a velocity is an integer number of 1/HZ pixel per second.             *)
(* In these units  v * delta_time  is the integer v,  GRAVITY * delta_time *)
(* is the integer GRAVITY, and (a - b) / delta_time is the integer a - b,  *)
(* all exact.  Only the products with FRICTION and with the two bounce     *)
(* factors are rounded (to the nearest unit, as a double rounds to the     *)
(* nearest representable value).                                           *)
(***************************************************************************)
EXTENDS Integers, FiniteSets, Sequences, TLC

\* ------------------------------------------------------------------ config
UPDATE_RATE_HZ == 60
GRAVITY == 2000
\* FRICTION = 0.98 as the fraction FRICTION_NUM / FRICTION_DEN
FRICTION_NUM == 98
FRICTION_DEN == 100
THROW_MULTIPLIER == 1
\* the bounce factors -0.5 and -0.4 as fractions over BOUNCE_DEN
BOUNCE_X_NUM == -5
BOUNCE_Y_NUM == -4
BOUNCE_DEN == 10

SCALE == UPDATE_RATE_HZ * UPDATE_RATE_HZ

\* ------------------------------------------------------------------ bounds
\* iterations of the while loop (snapshot queries) explored
MaxTicks == 3
\* steps of the window manager and the user explored
MaxEnv == 2

\* the screen, in pixels (lines 132-133, GetSystemMetrics)
screen_width == 4
screen_height == 5

\* window handles, and the places and sizes the window manager can report
Hwnds == {1, 2}
None == 0
Places == {<<0, 0>>, <<1, 3>>, <<-1, 1>>}
Sizes == {<<2, 2>>, <<0, 2>>, <<5, 6>>}

\* ------------------------------------------------------------- arithmetic
Abs(a) == IF a < 0 THEN -a ELSE a
Sgn(a) == IF a < 0 THEN -1 ELSE 1
Max(a, b) == IF a >= b THEN a ELSE b
Min(a, b) == IF a <= b THEN a ELSE b

\* v * (num / den), rounded to the nearest unit, symmetric in the sign
MulFrac(v, num, den) ==
    Sgn(v) * Sgn(num) * ((2 * Abs(v) * Abs(num) + den) \div (2 * den))

\* int(): truncation toward zero, of a position in 1/SCALE pixel to pixels
Trunc(p) == Sgn(p) * (Abs(p) \div SCALE)

\* a pixel coordinate as a position
Px(n) == n * SCALE

\* ------------------------------------------------------------------ state
VARIABLES
    os_windows,        \* window manager: hwnd -> [open, left, top, width, height]
    os_active,         \* window manager: the foreground window, or None
    is_mouse_down,     \* gravity.py:20, written by on_click
    running,           \* gravity.py:18
    managed_windows,   \* gravity.py:16, hwnd -> WindowState
    current_windows,   \* update_windows: the hwnds of the last snapshot
    active_hwnd,       \* update_windows: the active hwnd read in this tick
    pc,                \* update_windows: where the simulation thread is
    todo,              \* update_windows: bodies the physics loop has yet to visit
    moved,             \* hwnds win.moveTo was called for in this tick
    printed,           \* the lines printed in this tick, as <<what, hwnd>>
    reported,          \* hwnd -> <<left, top, how>>: the position last read from the
                       \* window for its body, and by what ("new", "dragged", "falling")
    listener,          \* main: the mouse listener, "on" or "off"
    scenario,          \* the configuration and first window the program runs with
    inserted,          \* gravity.py:16, the hwnds of managed_windows in the order
                       \* of their insertion, which is the order a dict iterates in
    queries,           \* snapshot queries made so far
    env_steps          \* window manager and user steps made so far

vars == <<os_windows, os_active, is_mouse_down, running, listener, scenario,
          managed_windows, inserted, current_windows, active_hwnd, pc, todo, moved, printed,
          reported, queries, env_steps>>

os_vars == <<os_windows, os_active>>
sim_vars == <<managed_windows, inserted, current_windows, active_hwnd, pc, todo, moved,
              printed, reported, queries>>

\* a window that does not exist (any longer): it is in no snapshot, and reading
\* or moving it raises PyGetWindowException
Closed == [open |-> FALSE, left |-> 0, top |-> 0, width |-> 0, height |-> 0]

OpenWindow(place, size) ==
    [open |-> TRUE, left |-> place[1], top |-> place[2],
     width |-> size[1], height |-> size[2]]

\* WindowState.__init__
WindowState(win) ==
    [vx |-> 0, vy |-> 0, last_x |-> Px(win.left), last_y |-> Px(win.top),
     is_user_controlled |-> FALSE]

EmptyDict == [k \in {} |-> 0]

Tracked == DOMAIN managed_windows

\* dict f with f[k] = v added or replaced
With(f, k, v) == [j \in (DOMAIN f) \cup {k} |-> IF j = k THEN v ELSE f[j]]

\* lines 9, 132-133 and the window of Init: what the program runs with
Installed ==
    [gravity |-> GRAVITY, screen_width |-> screen_width,
     screen_height |-> screen_height,
     left |-> 0, top |-> 0, width |-> 2, height |-> 2]

Init ==
    /\ os_windows = [hwnd \in Hwnds |-> IF hwnd = 1 THEN OpenWindow(<<0, 0>>, <<2, 2>>) ELSE Closed]
    /\ os_active \in {None, 1}
    /\ is_mouse_down = FALSE
    /\ running = TRUE
    /\ managed_windows = EmptyDict
    /\ inserted = <<>>
    /\ current_windows = {}
    /\ active_hwnd = None
    /\ pc = "top"
    /\ todo = {}
    /\ moved = {}
    /\ printed = {}
    /\ reported = EmptyDict
    /\ listener = "on"
    /\ scenario = Installed
    /\ queries = 0
    /\ env_steps = 0

\* ---------------------------------------------------------------- physics
\* ControlMode without the test for the active window
ControlModeAnyWindow(hwnd, active, down) == down

\* ControlMode when the mouse flag alone also makes a window user-controlled
ControlModeActiveOrDown(hwnd, active, down) == hwnd = active \/ down

\* line 75: a window is user-controlled iff it is the active one and the mouse is down
ControlMode(hwnd, active, down) == hwnd = active /\ down

\* lines 86-87: (win.left - state.last_x) / delta_time * THROW_MULTIPLIER
ThrowVelocity(now, last) == (now - last) * THROW_MULTIPLIER

\* Dragged when gravity also acts on a dragged window
DraggedWithGravity(state, win) ==
    [state EXCEPT !.vx = ThrowVelocity(Px(win.left), state.last_x),
                  !.vy = ThrowVelocity(Px(win.top), state.last_y) + GRAVITY,
                  !.last_x = Px(win.left),
                  !.last_y = Px(win.top)]

\* Dragged without lines 90-91: the position of the window is not recorded
DraggedKeepsPosition(state, win) ==
    [state EXCEPT !.vx = ThrowVelocity(Px(win.left), state.last_x),
                  !.vy = ThrowVelocity(Px(win.top), state.last_y)]

\* lines 83-91: the body of a window the user is dragging
Dragged(state, win) ==
    [state EXCEPT !.vx = ThrowVelocity(Px(win.left), state.last_x),
                  !.vy = ThrowVelocity(Px(win.top), state.last_y),
                  !.last_x = Px(win.left),
                  !.last_y = Px(win.top)]

\* Gravitate when gravity adds nothing to the velocity
Weightless(vy, gravity) == vy

\* Gravitate when gravity pulls to the top of the screen
GravitateUp(vy, gravity) == vy - gravity

\* line 94: state.vy += GRAVITY * delta_time, for the configured gravity
Gravitate(vy, gravity) == vy + gravity

\* Rub when the velocity is divided by FRICTION
RubUp(vx) == MulFrac(vx, FRICTION_DEN, FRICTION_NUM)

\* line 95: state.vx *= FRICTION
Rub(vx) == MulFrac(vx, FRICTION_NUM, FRICTION_DEN)

\* lines 98-99: new = last + v * delta_time
Advance(last, v) == last + v

\* HitsEdge when only the left or top edge is tested
HitsLowEdge(new, extent, screen) == new <= 0

\* lines 102, 104: the candidate position touches or crosses an edge
HitsEdge(new, extent, screen) == new <= 0 \/ new + Px(extent) >= Px(screen)

\* line 103
BounceX(vx) == MulFrac(vx, BOUNCE_X_NUM, BOUNCE_DEN)

\* BounceY with the factor of BounceX
BounceYLikeX(vy) == MulFrac(vy, BOUNCE_X_NUM, BOUNCE_DEN)

\* line 105
BounceY(vy) == MulFrac(vy, BOUNCE_Y_NUM, BOUNCE_DEN)

\* Clamp without the max(0, ...)
ClampNoFloor(new, extent, screen) == Min(new, Px(screen - extent))

\* lines 108-109: max(0, min(new, screen - extent))
Clamp(new, extent, screen) == Max(0, Min(new, Px(screen - extent)))

\* NeedsMove when only the left edge is compared
NeedsMoveLeftOnly(win, clamped_x, clamped_y) == win.left /= Trunc(clamped_x)

\* line 113: the window is not where the body is
NeedsMove(win, clamped_x, clamped_y) ==
    win.left /= Trunc(clamped_x) \/ win.top /= Trunc(clamped_y)

\* FallingIn when the position is advanced with the velocity of the tick before
\* (the explicit Euler step)
FallingExplicit(state, win, cfg) ==
    LET vy1 == Gravitate(state.vy, cfg.gravity)
        vx1 == Rub(state.vx)
        new_x == Advance(state.last_x, state.vx)
        new_y == Advance(state.last_y, state.vy)
    IN  [vx |-> IF HitsEdge(new_x, win.width, cfg.screen_width) THEN BounceX(vx1) ELSE vx1,
         vy |-> IF HitsEdge(new_y, win.height, cfg.screen_height) THEN BounceY(vy1) ELSE vy1,
         new_x |-> new_x,
         new_y |-> new_y,
         clamped_x |-> Clamp(new_x, win.width, cfg.screen_width),
         clamped_y |-> Clamp(new_y, win.height, cfg.screen_height)]

\* lines 94-109: velocity, candidate and clamped position of a falling body,
\* for the gravity of line 9 and the screen of lines 132-133 as cfg has them
FallingIn(state, win, cfg) ==
    LET vy1 == Gravitate(state.vy, cfg.gravity)
        vx1 == Rub(state.vx)
        new_x == Advance(state.last_x, vx1)
        new_y == Advance(state.last_y, vy1)
    IN  [vx |-> IF HitsEdge(new_x, win.width, cfg.screen_width) THEN BounceX(vx1) ELSE vx1,
         vy |-> IF HitsEdge(new_y, win.height, cfg.screen_height) THEN BounceY(vy1) ELSE vy1,
         new_x |-> new_x,
         new_y |-> new_y,
         clamped_x |-> Clamp(new_x, win.width, cfg.screen_width),
         clamped_y |-> Clamp(new_y, win.height, cfg.screen_height)]

\* lines 94-109 as the program runs them
Falling(state, win) == FallingIn(state, win, Installed)

\* ------------------------------------------------- the simulation thread
\* line 43: the thread is at the loop test, after the sleep of line 123 (or at
\* the start) or after the `continue` of line 48
AtLoopTest == pc \in {"top", "retry"}

\* QueryFails when the failed query is taken for an empty snapshot
QueryFailsForgets ==
    /\ AtLoopTest
    /\ running
    /\ queries < MaxTicks
    /\ queries' = queries + 1
    /\ managed_windows' = EmptyDict
    /\ inserted' = <<>>
    /\ reported' = EmptyDict
    /\ pc' = "retry"
    /\ UNCHANGED <<os_vars, is_mouse_down, running, listener, scenario, current_windows,
                   active_hwnd, todo, moved, printed, env_steps>>

\* lines 43-48: gw.getAllWindows() raises; `continue` goes back to the loop test
QueryFails ==
    /\ AtLoopTest
    /\ running
    /\ queries < MaxTicks
    /\ queries' = queries + 1
    /\ pc' = "retry"
    /\ UNCHANGED <<os_vars, is_mouse_down, running, listener, scenario, inserted, managed_windows,
                   current_windows, active_hwnd, todo, moved, printed,
                   reported, env_steps>>

\* lines 43-46: the snapshot of the windows that exist
Query ==
    /\ AtLoopTest
    /\ running
    /\ queries < MaxTicks
    /\ queries' = queries + 1
    /\ current_windows' = {hwnd \in Hwnds : os_windows[hwnd].open}
    /\ moved' = {}
    /\ printed' = {}
    /\ pc' = "sync"
    /\ UNCHANGED <<os_vars, is_mouse_down, running, listener, scenario, inserted, managed_windows,
                   active_hwnd, todo, reported, env_steps>>

\* Discovered when only the height of a new window is tested
DiscoveredByHeight ==
    {hwnd \in current_windows \ Tracked :
        os_windows[hwnd].open /\ os_windows[hwnd].height > 0}

\* Discovered without the test of line 53: a window that has a body gets a new one
DiscoveredAgain ==
    {hwnd \in current_windows :
        /\ os_windows[hwnd].open
        /\ os_windows[hwnd].width > 0
        /\ os_windows[hwnd].height > 0}

\* lines 52-60: the windows of the snapshot that get a body.  Reading the size
\* of a window that vanished after the snapshot raises, and the window is skipped.
Discovered ==
    {hwnd \in current_windows \ Tracked :
        /\ os_windows[hwnd].open
        /\ os_windows[hwnd].width > 0
        /\ os_windows[hwnd].height > 0}

\* lines 58-60: the new windows whose size could not be read
Fleeting == {hwnd \in current_windows \ Tracked : ~os_windows[hwnd].open}

\* closed_windows when no window is ever dropped
closed_windows_never == {}

\* closed_windows when only the active window is ever dropped
closed_windows_active_only ==
    {hwnd \in Tracked : hwnd \notin current_windows /\ hwnd = active_hwnd}

\* lines 63-67
closed_windows == {hwnd \in Tracked : hwnd \notin current_windows}

\* the orders in which a loop over a snapshot can meet the hwnds of S
Orders(S) ==
    {order \in [1..Cardinality(S) -> S] :
        \A i, j \in 1..Cardinality(S) : i /= j => order[i] /= order[j]}

\* lines 50-67: add new windows, in the order of the snapshot, and remove closed
\* windows
Sync ==
    /\ pc = "sync"
    /\ \E order \in Orders(Discovered) :
          inserted' = SelectSeq(inserted, LAMBDA hwnd : hwnd \notin closed_windows) \o order
    /\ managed_windows' =
          [hwnd \in (Tracked \cup Discovered) \ closed_windows |->
              IF hwnd \in Discovered THEN WindowState(os_windows[hwnd])
                                     ELSE managed_windows[hwnd]]
    /\ reported' =
          [hwnd \in (Tracked \cup Discovered) \ closed_windows |->
              IF hwnd \in Discovered
                  THEN <<os_windows[hwnd].left, os_windows[hwnd].top, "new">>
                  ELSE reported[hwnd]]
    /\ printed' = {<<"found", hwnd>> : hwnd \in Discovered}
                  \cup {<<"skipped", hwnd>> : hwnd \in Fleeting}
                  \cup {<<"closed", hwnd>> : hwnd \in closed_windows}
    /\ pc' = "control"
    /\ UNCHANGED <<os_vars, is_mouse_down, running, listener, scenario, current_windows,
                   active_hwnd, todo, moved, queries, env_steps>>

\* lines 69-71: the active window
Control ==
    /\ pc = "control"
    /\ active_hwnd' = os_active
    /\ todo' = Tracked
    /\ pc' = IF Tracked = {} THEN "sleep" ELSE "modes"
    /\ UNCHANGED <<os_vars, is_mouse_down, running, listener, scenario, inserted,
                   managed_windows, current_windows, moved, printed, reported,
                   queries, env_steps>>

\* lines 73, 78: the next hwnd of a loop over managed_windows that has the
\* hwnds of S left to visit
First(S) ==
    LET rank(hwnd) == CHOOSE i \in 1..Len(inserted) : inserted[i] = hwnd
    IN  CHOOSE hwnd \in S : \A other \in S : rank(hwnd) <= rank(other)

\* SetMode when a body that is user-controlled stays so
SetModeSticky(hwnd) ==
    /\ pc = "modes"
    /\ hwnd \in todo
    /\ hwnd = First(todo)
    /\ managed_windows' =
          With(managed_windows, hwnd,
               [managed_windows[hwnd] EXCEPT
                   !.is_user_controlled =
                       @ \/ ControlMode(hwnd, active_hwnd, is_mouse_down)])
    /\ IF todo = {hwnd}
          THEN todo' = Tracked /\ pc' = "physics"
          ELSE todo' = todo \ {hwnd} /\ pc' = "modes"
    /\ UNCHANGED <<os_vars, is_mouse_down, running, listener, scenario, inserted,
                   current_windows, active_hwnd, moved, printed, reported,
                   queries, env_steps>>

\* lines 73-75: one iteration of the loop that sets the control modes; after the
\* last one the physics loop starts over all the bodies
SetMode(hwnd) ==
    /\ pc = "modes"
    /\ hwnd \in todo
    /\ hwnd = First(todo)
    /\ managed_windows' =
          With(managed_windows, hwnd,
               [managed_windows[hwnd] EXCEPT
                   !.is_user_controlled = ControlMode(hwnd, active_hwnd, is_mouse_down)])
    /\ IF todo = {hwnd}
          THEN todo' = Tracked /\ pc' = "physics"
          ELSE todo' = todo \ {hwnd} /\ pc' = "modes"
    /\ UNCHANGED <<os_vars, is_mouse_down, running, listener, scenario, inserted,
                   current_windows, active_hwnd, moved, printed, reported,
                   queries, env_steps>>

\* where the physics loop is after the body of hwnd
AfterBody(hwnd) == IF todo \ {hwnd} = {} THEN "sleep" ELSE "physics"

\* IntegrateDragged when the dragged window is also put back on the screen
IntegrateDraggedMoves(hwnd) ==
    /\ pc = "physics"
    /\ hwnd \in todo
    /\ hwnd = First(todo)
    /\ os_windows[hwnd].open
    /\ managed_windows[hwnd].is_user_controlled
    /\ LET win == os_windows[hwnd]
           x == Clamp(Px(win.left), win.width, screen_width)
           y == Clamp(Px(win.top), win.height, screen_height)
       IN  /\ managed_windows' =
                 With(managed_windows, hwnd, Dragged(managed_windows[hwnd], win))
           /\ reported' = With(reported, hwnd, <<win.left, win.top, "dragged">>)
           /\ moved' = moved \cup {hwnd}
           /\ os_windows' = [os_windows EXCEPT ![hwnd].left = Trunc(x),
                                                ![hwnd].top = Trunc(y)]
    /\ todo' = todo \ {hwnd}
    /\ pc' = AfterBody(hwnd)
    /\ UNCHANGED <<os_active, is_mouse_down, running, listener, scenario, inserted, current_windows,
                   active_hwnd, printed, queries, env_steps>>

\* lines 78-91: one iteration of the physics loop, for a dragged window
IntegrateDragged(hwnd) ==
    /\ pc = "physics"
    /\ hwnd \in todo
    /\ hwnd = First(todo)
    /\ os_windows[hwnd].open
    /\ managed_windows[hwnd].is_user_controlled
    /\ managed_windows' =
          With(managed_windows, hwnd, Dragged(managed_windows[hwnd], os_windows[hwnd]))
    /\ reported' =
          With(reported, hwnd, <<os_windows[hwnd].left, os_windows[hwnd].top, "dragged">>)
    /\ todo' = todo \ {hwnd}
    /\ pc' = AfterBody(hwnd)
    /\ UNCHANGED <<os_vars, is_mouse_down, running, listener, scenario, inserted, current_windows,
                   active_hwnd, moved, printed, queries, env_steps>>

\* lines 118-120: the body of hwnd after a falling step that reached them
Landed(state, f) ==
    [state EXCEPT !.vx = f.vx, !.vy = f.vy,
                  !.last_x = f.clamped_x, !.last_y = f.clamped_y]

\* lines 115-116: the body of hwnd after a falling step whose move raised
NotLanded(state, f) == [state EXCEPT !.vx = f.vx, !.vy = f.vy]

\* lines 78-82, 92-120: one iteration of the physics loop, for a falling window
IntegrateFalling(hwnd) ==
    /\ pc = "physics"
    /\ hwnd \in todo
    /\ hwnd = First(todo)
    /\ os_windows[hwnd].open
    /\ ~managed_windows[hwnd].is_user_controlled
    /\ LET win == os_windows[hwnd]
           f == Falling(managed_windows[hwnd], win)
       IN  /\ managed_windows' =
                 With(managed_windows, hwnd, Landed(managed_windows[hwnd], f))
           /\ IF NeedsMove(win, f.clamped_x, f.clamped_y)
                 THEN /\ moved' = moved \cup {hwnd}
                      /\ os_windows' =
                            [os_windows EXCEPT ![hwnd].left = Trunc(f.clamped_x),
                                               ![hwnd].top = Trunc(f.clamped_y)]
                 ELSE UNCHANGED <<moved, os_windows>>
           /\ reported' = With(reported, hwnd, <<win.left, win.top, "falling">>)
    /\ todo' = todo \ {hwnd}
    /\ pc' = AfterBody(hwnd)
    /\ UNCHANGED <<os_active, is_mouse_down, running, listener, scenario, inserted, current_windows,
                   active_hwnd, printed, queries, env_steps>>

\* lines 112-116: the window is destroyed after its size was read and before
\* win.moveTo acts; moveTo raises and `continue` skips lines 119-120
MoveVanished(hwnd) ==
    /\ pc = "physics"
    /\ hwnd \in todo
    /\ hwnd = First(todo)
    /\ os_windows[hwnd].open
    /\ ~managed_windows[hwnd].is_user_controlled
    /\ env_steps < MaxEnv
    /\ LET win == os_windows[hwnd]
           f == Falling(managed_windows[hwnd], win)
       IN  /\ NeedsMove(win, f.clamped_x, f.clamped_y)
           /\ managed_windows' =
                 With(managed_windows, hwnd, NotLanded(managed_windows[hwnd], f))
           /\ reported' = With(reported, hwnd, <<win.left, win.top, "falling">>)
    /\ moved' = moved \cup {hwnd}
    /\ os_windows' = [os_windows EXCEPT ![hwnd] = Closed]
    /\ os_active' = IF os_active = hwnd THEN None ELSE os_active
    /\ env_steps' = env_steps + 1
    /\ todo' = todo \ {hwnd}
    /\ pc' = AfterBody(hwnd)
    /\ UNCHANGED <<is_mouse_down, running, listener, scenario, inserted, current_windows, active_hwnd,
                   printed, queries>>

\* lines 86, 102-109: the window was destroyed after the snapshot; reading its
\* position or size raises outside any try, and the thread ends
ReadVanished(hwnd) ==
    /\ pc = "physics"
    /\ hwnd \in todo
    /\ hwnd = First(todo)
    /\ ~os_windows[hwnd].open
    /\ pc' = "crashed"
    /\ UNCHANGED <<os_vars, is_mouse_down, running, listener, scenario, inserted, managed_windows,
                   current_windows, active_hwnd, todo, moved, printed, reported,
                   queries, env_steps>>

\* line 123
Sleep ==
    /\ pc = "sleep"
    /\ pc' = "top"
    /\ UNCHANGED <<os_vars, is_mouse_down, running, listener, scenario, inserted, managed_windows,
                   current_windows, active_hwnd, todo, moved, printed, reported,
                   queries, env_steps>>

\* line 43: the loop test finds running false
Exit ==
    /\ AtLoopTest
    /\ ~running
    /\ pc' = "done"
    /\ UNCHANGED <<os_vars, is_mouse_down, running, listener, scenario, inserted, managed_windows,
                   current_windows, active_hwnd, todo, moved, printed, reported,
                   queries, env_steps>>

\* ------------------------------------- the user and the window manager
\* the simulation thread has steps left to take.  A step of the user while the
\* thread sleeps (line 123) is taken when it is back at the loop test: the
\* thread reads nothing in between.
Live == pc \notin {"done", "crashed", "sleep"} /\ ~(AtLoopTest /\ running /\ queries = MaxTicks)

EnvStep ==
    /\ Live
    /\ env_steps < MaxEnv
    /\ env_steps' = env_steps + 1

\* lines 33-36
on_click(pressed) ==
    /\ EnvStep
    /\ listener = "on"
    /\ pressed /= is_mouse_down
    /\ is_mouse_down' = pressed
    /\ UNCHANGED <<os_vars, running, listener, scenario, sim_vars>>

\* lines 142-146: KeyboardInterrupt in main
Interrupt ==
    /\ EnvStep
    /\ running
    /\ running' = FALSE
    /\ UNCHANGED <<os_vars, is_mouse_down, listener, scenario, sim_vars>>

\* lines 147-148: main_thread.join() has returned; mouse_listener.stop()
StopListener ==
    /\ ~running
    /\ pc \in {"done", "crashed"}
    /\ listener = "on"
    /\ listener' = "off"
    /\ UNCHANGED <<os_vars, is_mouse_down, running, scenario, sim_vars, env_steps>>

\* a window appears
OSOpen(hwnd, place, size) ==
    /\ EnvStep
    /\ ~os_windows[hwnd].open
    /\ os_windows' = [os_windows EXCEPT ![hwnd] = OpenWindow(place, size)]
    /\ UNCHANGED <<os_active, is_mouse_down, running, listener, scenario, sim_vars>>

\* a window is destroyed
OSClose(hwnd) ==
    /\ EnvStep
    /\ os_windows[hwnd].open
    /\ os_windows' = [os_windows EXCEPT ![hwnd] = Closed]
    /\ os_active' = IF os_active = hwnd THEN None ELSE os_active
    /\ UNCHANGED <<is_mouse_down, running, listener, scenario, sim_vars>>

\* the user (or anything but this program) moves a window
OSMove(hwnd, place) ==
    /\ EnvStep
    /\ os_windows[hwnd].open
    /\ <<os_windows[hwnd].left, os_windows[hwnd].top>> /= place
    /\ os_windows' = [os_windows EXCEPT ![hwnd].left = place[1], ![hwnd].top = place[2]]
    /\ UNCHANGED <<os_active, is_mouse_down, running, listener, scenario, sim_vars>>

\* a window is resized
OSResize(hwnd, size) ==
    /\ EnvStep
    /\ os_windows[hwnd].open
    /\ <<os_windows[hwnd].width, os_windows[hwnd].height>> /= size
    /\ os_windows' = [os_windows EXCEPT ![hwnd].width = size[1], ![hwnd].height = size[2]]
    /\ UNCHANGED <<os_active, is_mouse_down, running, listener, scenario, sim_vars>>

\* another window, or none, becomes the foreground window
OSActivate(hwnd) ==
    /\ EnvStep
    /\ hwnd /= os_active
    /\ IF hwnd = None THEN TRUE ELSE os_windows[hwnd].open
    /\ os_active' = hwnd
    /\ UNCHANGED <<os_windows, is_mouse_down, running, listener, scenario, sim_vars>>

Next ==
    \/ QueryFails
    \/ Query
    \/ Sync
    \/ Control
    \/ \E hwnd \in Hwnds : SetMode(hwnd)
    \/ \E hwnd \in Hwnds : IntegrateDragged(hwnd)
    \/ \E hwnd \in Hwnds : IntegrateFalling(hwnd)
    \/ \E hwnd \in Hwnds : MoveVanished(hwnd)
    \/ \E hwnd \in Hwnds : ReadVanished(hwnd)
    \/ Sleep
    \/ Exit
    \/ \E pressed \in BOOLEAN : on_click(pressed)
    \/ Interrupt
    \/ StopListener
    \/ \E hwnd \in Hwnds, place \in Places, size \in Sizes : OSOpen(hwnd, place, size)
    \/ \E hwnd \in Hwnds : OSClose(hwnd)
    \/ \E hwnd \in Hwnds, place \in Places : OSMove(hwnd, place)
    \/ \E hwnd \in Hwnds, size \in Sizes : OSResize(hwnd, size)
    \/ \E hwnd \in Hwnds \cup {None} : OSActivate(hwnd)

Spec == Init /\ [][Next]_vars

\* ---------------------------------------------- a window left to fall
\* ticks of a falling window explored
FallTicks == 30

\* gravity, screen and window of the runs explored: the first with the screen
\* 1920x1080, a window 400x300 at (760, 0) and gravity 1200; the others with the
\* gravity of line 9, of which one window starts near the floor and one at the
\* left edge
Scenarios ==
    {[gravity |-> 1200, screen_width |-> 1920, screen_height |-> 1080,
      left |-> 760, top |-> 0, width |-> 400, height |-> 300]}
    \cup
    {[gravity |-> GRAVITY, screen_width |-> 1920, screen_height |-> 1080,
      left |-> place[1], top |-> place[2], width |-> 400, height |-> 300] :
        place \in {<<760, 0>>, <<100, 200>>, <<760, 700>>, <<0, 0>>}}

\* the only window of a scenario
FallWindow(cfg) == OpenWindow(<<cfg.left, cfg.top>>, <<cfg.width, cfg.height>>)

\* the window of a scenario has been found (lines 52-57), nobody touches it
InitFall ==
    /\ scenario \in Scenarios
    /\ os_windows = [hwnd \in Hwnds |-> IF hwnd = 1 THEN FallWindow(scenario) ELSE Closed]
    /\ os_active = None
    /\ is_mouse_down = FALSE
    /\ running = TRUE
    /\ managed_windows = [hwnd \in {1} |-> WindowState(FallWindow(scenario))]
    /\ inserted = <<1>>
    /\ current_windows = {1}
    /\ active_hwnd = None
    /\ pc = "physics"
    /\ todo = {1}
    /\ moved = {}
    /\ printed = {}
    /\ reported = [hwnd \in {1} |-> <<scenario.left, scenario.top, "new">>]
    /\ listener = "on"
    /\ queries = 0
    /\ env_steps = 0

\* lines 92-120 for the window of the scenario: one tick of the loop when the
\* window stays open, is not the active one and nothing else happens
FallStep ==
    /\ LET win == os_windows[1]
           f == FallingIn(managed_windows[1], win, scenario)
       IN  /\ managed_windows' =
                 With(managed_windows, 1, Landed(managed_windows[1], f))
           /\ IF NeedsMove(win, f.clamped_x, f.clamped_y)
                 THEN /\ moved' = {1}
                      /\ os_windows' =
                            [os_windows EXCEPT ![1].left = Trunc(f.clamped_x),
                                               ![1].top = Trunc(f.clamped_y)]
                 ELSE moved' = {} /\ UNCHANGED os_windows
           /\ reported' = With(reported, 1, <<win.left, win.top, "falling">>)
    /\ UNCHANGED <<os_active, is_mouse_down, running, listener, scenario, inserted,
                   current_windows, active_hwnd, pc, todo, printed, env_steps>>

\* one of the FallTicks ticks explored
FallTick ==
    /\ queries < FallTicks
    /\ queries' = queries + 1
    /\ FallStep

NextFall == FallTick

SpecFall == InitFall /\ [][NextFall]_vars

\* ------------------------------------- a window left to fall, for good
\* the velocities, in pixels per tick, a drag has left the body with when the
\* window is released: none, thrown up and thrown down
Throws == {0, -20, 10}

\* InitFall after a drag that has left the body a vertical velocity
InitSettle ==
    /\ scenario \in Scenarios
    /\ os_windows = [hwnd \in Hwnds |-> IF hwnd = 1 THEN FallWindow(scenario) ELSE Closed]
    /\ os_active = None
    /\ is_mouse_down = FALSE
    /\ running = TRUE
    /\ \E throw \in Throws :
          managed_windows =
              [hwnd \in {1} |-> [WindowState(FallWindow(scenario)) EXCEPT !.vy = Px(throw)]]
    /\ inserted = <<1>>
    /\ current_windows = {1}
    /\ active_hwnd = None
    /\ pc = "physics"
    /\ todo = {1}
    /\ moved = {}
    /\ printed = {}
    /\ reported = [hwnd \in {1} |-> <<scenario.left, scenario.top, "dragged">>]
    /\ listener = "on"
    /\ queries = 0
    /\ env_steps = 0

\* a tick of the loop, which goes on as long as running is true (line 43); the
\* ticks are counted up to FallTicks
SettleTick ==
    /\ queries' = IF queries < FallTicks THEN queries + 1 ELSE queries
    /\ FallStep

NextSettle == SettleTick

\* line 123: the loop sleeps delta_time and makes its next tick
SpecSettle == InitSettle /\ [][NextSettle]_vars /\ WF_vars(SettleTick)

\* ------------------------------------------- after a tick with a drag
\* A state of Spec after its first tick, reached when the user has opened a
\* second window at (0, 0), made it the active one and pressed the mouse before
\* the first snapshot, and has dragged it to place while the tick ran: the body
\* of window 1 has fallen for one tick, the body of window 2 is Dragged and holds
\* the velocity estimated from the drag.
InitThrow ==
    \E place \in Places :
        LET found == OpenWindow(<<0, 0>>, <<2, 2>>)
            dragged == OpenWindow(place, <<2, 2>>)
            fallen == Falling(WindowState(found), found)
        IN  /\ os_windows = [hwnd \in Hwnds |-> IF hwnd = 1 THEN found ELSE dragged]
            /\ os_active = 2
            /\ is_mouse_down = TRUE
            /\ running = TRUE
            /\ managed_windows =
                  [hwnd \in Hwnds |->
                      IF hwnd = 1
                          THEN Landed(WindowState(found), fallen)
                          ELSE [Dragged(WindowState(found), dragged)
                                    EXCEPT !.is_user_controlled = TRUE]]
            /\ inserted = <<1, 2>>
            /\ current_windows = Hwnds
            /\ active_hwnd = 2
            /\ pc = "top"
            /\ todo = {}
            /\ moved = {}
            /\ printed = {<<"found", hwnd>> : hwnd \in Hwnds}
            /\ reported = [hwnd \in Hwnds |->
                              IF hwnd = 1 THEN <<0, 0, "falling">>
                                          ELSE <<place[1], place[2], "dragged">>]
            /\ listener = "on"
            /\ scenario = Installed
            /\ queries = 1
            /\ env_steps = 0

SpecThrow == InitThrow /\ [][Next]_vars

\* ------------------------------------------------------------------ claims
\* the step is the physics loop's iteration for hwnd, run to its end
Visits(hwnd) == pc = "physics" /\ hwnd \in todo /\ hwnd \notin todo'

\* the step is the iteration for hwnd of the loop that sets the control modes
Decides(hwnd) ==
    pc = "modes" /\ hwnd \in todo /\ (pc' = "physics" \/ hwnd \notin todo')

\* the step is that iteration and the body of hwnd is a falling one
VisitsFalling(hwnd) == Visits(hwnd) /\ ~managed_windows[hwnd].is_user_controlled

\* the step is that iteration and the body of hwnd is a dragged one
VisitsDragged(hwnd) == Visits(hwnd) /\ managed_windows[hwnd].is_user_controlled

\* the stored position of hwnd's body lies on the screen, for the size win
OnScreen(state, win) ==
    /\ 0 <= state.last_x /\ state.last_x <= Px(screen_width - win.width)
    /\ 0 <= state.last_y /\ state.last_y <= Px(screen_height - win.height)

\* C1 as claimed: after every tick every tracked body, whatever its mode and
\* whatever the size of its window, is stored at a position with
\* 0 <= x <= screen_width - width and 0 <= y <= screen_height - height.
C1_AlwaysOnScreen ==
    pc = "sleep" =>
        \A hwnd \in Tracked :
            os_windows[hwnd].open => OnScreen(managed_windows[hwnd], os_windows[hwnd])

\* C1 amended: a falling step that stores the body's position (its move did not
\* raise) stores one with 0 <= x <= max(0, screen_width - width) and
\* 0 <= y <= max(0, screen_height - height), for the size read in that step;
\* this is the claimed rectangle when the window fits on the screen.
C1_FallingClamped ==
    [][\A hwnd \in Hwnds :
          VisitsFalling(hwnd) /\ os_windows'[hwnd].open =>
              LET state == managed_windows'[hwnd]
                  win == os_windows[hwnd]
              IN  /\ 0 <= state.last_x
                  /\ state.last_x <= Max(0, Px(screen_width - win.width))
                  /\ 0 <= state.last_y
                  /\ state.last_y <= Max(0, Px(screen_height - win.height))
                  /\ (win.width <= screen_width /\ win.height <= screen_height
                        => OnScreen(state, win))]_vars

\* C1 witness: a tick is over in which a falling body was pulled back from beyond
\* the bottom edge to screen_height - height.
C1_Witness ==
    /\ pc = "sleep"
    /\ \E hwnd \in Tracked :
          /\ ~managed_windows[hwnd].is_user_controlled
          /\ os_windows[hwnd].open
          /\ os_windows[hwnd].height > 0
          /\ os_windows[hwnd].height <= screen_height
          /\ managed_windows[hwnd].last_y = Px(screen_height - os_windows[hwnd].height)
          /\ managed_windows[hwnd].vy < 0

\* C2 as claimed: in every reachable state a tracked body is user-controlled
\* (Dragged) if and only if its hwnd is the active one and the mouse is down.
C2_ModeFollowsMouse ==
    \A hwnd \in Tracked :
        managed_windows[hwnd].is_user_controlled <=> (hwnd = active_hwnd /\ is_mouse_down)

\* C2 amended: when the loop sets the control modes (line 75) a body becomes
\* Dragged if and only if its hwnd is the active hwnd read in that tick and the
\* mouse flag is down at that moment; once the modes of a tick are set, a Dragged
\* body is always the body of the active hwnd of that tick, but the flag may
\* have changed since.
C2_ModeSetFromMouse ==
    [][/\ pc' /= "modes" =>
              \A hwnd \in Tracked' :
                  managed_windows'[hwnd].is_user_controlled => hwnd = active_hwnd'
       /\ \A hwnd \in Hwnds :
              Decides(hwnd) =>
                  (managed_windows'[hwnd].is_user_controlled
                      <=> (hwnd = active_hwnd /\ is_mouse_down))]_vars

\* C2 witness: a body is Dragged although the mouse button was released after
\* the modes were set.
C2_Witness ==
    \E hwnd \in Tracked :
        /\ managed_windows[hwnd].is_user_controlled
        /\ hwnd = active_hwnd
        /\ ~is_mouse_down

\* C3: the reconciliation of a tick removes every tracked hwnd that is not in
\* the tick's snapshot, before the physics loop runs, and every iteration of the
\* physics loop and every move command is for a hwnd that is tracked and in the
\* snapshot.
C3_ClosedRemovedAtOnce ==
    [][/\ pc = "sync" /\ pc' /= "sync" =>
              /\ \A hwnd \in Tracked : hwnd \notin current_windows => hwnd \notin Tracked'
              /\ pc' = "control"
              /\ todo' = {}
       /\ \A hwnd \in Hwnds :
              Visits(hwnd) \/ (hwnd \in moved' /\ hwnd \notin moved) =>
                  hwnd \in Tracked /\ hwnd \in current_windows]_vars

\* C3 witness: the reconciliation has just dropped a closed window while another
\* body stays tracked.
C3_Witness ==
    /\ pc = "control"
    /\ \E hwnd \in Hwnds : <<"closed", hwnd>> \in printed /\ hwnd \notin Tracked
    /\ Tracked /= {}

\* C4: except in the middle of a reconciliation, every tracked hwnd is a hwnd of
\* the most recent snapshot that was obtained.
C4_TrackedInSnapshot == pc /= "sync" => Tracked \subseteq current_windows

\* C4 witness: the physics loop starts with a body whose window was destroyed
\* after the snapshot.
C4_Witness ==
    /\ pc = "physics"
    /\ todo = Tracked
    /\ \E hwnd \in Tracked : ~os_windows[hwnd].open

\* C5: a tick whose snapshot query fails changes no body, tracks and drops no
\* window, visits no body and moves no window; back at the loop test, the loop
\* makes the query again (unless it was told to stop).
C5_FailedQueryNoOp ==
    [][/\ pc = "retry" /\ running /\ queries < MaxTicks => ENABLED Query
       /\ queries' /= queries /\ pc' = "retry" =>
          /\ managed_windows' = managed_windows
          /\ current_windows' = current_windows
          /\ todo' = todo
          /\ moved' = moved
          /\ printed' = printed
          /\ os_windows' = os_windows]_vars

\* C5 witness: a query has failed while bodies were tracked, and the next query
\* can be made.
C5_Witness ==
    /\ pc = "retry"
    /\ running
    /\ queries < MaxTicks
    /\ \E hwnd \in Tracked : managed_windows[hwnd].vy /= 0

\* C6: the reconciliation gives no body to a new window of the snapshot whose
\* width or height is not positive or cannot be read, and gives every other new
\* window of the snapshot one body, at the window's reported position, with
\* velocity (0, 0), Falling.
C6_NewWindows ==
    [][pc = "sync" /\ pc' /= "sync" =>
          \A hwnd \in current_windows \ Tracked :
              LET win == os_windows[hwnd]
              IN  IF ~win.open \/ win.width <= 0 \/ win.height <= 0
                     THEN hwnd \notin Tracked'
                     ELSE /\ hwnd \in Tracked'
                          /\ managed_windows'[hwnd] =
                                [vx |-> 0, vy |-> 0,
                                 last_x |-> win.left * SCALE,
                                 last_y |-> win.top * SCALE,
                                 is_user_controlled |-> FALSE]]_vars

\* C6 witness: one reconciliation has given a body to one new window and none
\* to another new window, whose width is 0.
C6_Witness ==
    /\ pc = "control"
    /\ \E hwnd \in Tracked : <<"found", hwnd>> \in printed
    /\ \E hwnd \in current_windows \ Tracked :
          os_windows[hwnd].open /\ os_windows[hwnd].width = 0

\* C7: the iteration of the physics loop for a Dragged body calls no moveTo and
\* leaves every window where it is; no window moved in a tick belongs to a body
\* that is Dragged in that tick.
C7_NoMoveWhileDragged ==
    [][/\ \A hwnd \in Hwnds :
              VisitsDragged(hwnd) => moved' = moved /\ os_windows' = os_windows
       /\ \A hwnd \in moved' \cap Tracked' :
              ~managed_windows'[hwnd].is_user_controlled]_vars

\* C7 witness: a Dragged body has been visited while its window hangs over the
\* left edge of the screen, and the window is still there.
C7_Witness ==
    /\ pc \in {"physics", "sleep"}
    /\ \E hwnd \in Tracked \ todo :
          /\ managed_windows[hwnd].is_user_controlled
          /\ os_windows[hwnd].open
          /\ os_windows[hwnd].left < 0
          /\ hwnd \notin moved

\* C8 as claimed: in every Dragged tick, the first one after a Falling tick
\* included, the velocity after the tick is (position reported in this tick -
\* position reported in the previous tick) / delta_time * THROW_MULTIPLIER.
C8_ThrowFromReports ==
    [][\A hwnd \in Hwnds :
          VisitsDragged(hwnd) =>
              /\ managed_windows'[hwnd].vx =
                    (os_windows[hwnd].left - reported[hwnd][1]) * SCALE * THROW_MULTIPLIER
              /\ managed_windows'[hwnd].vy =
                    (os_windows[hwnd].top - reported[hwnd][2]) * SCALE * THROW_MULTIPLIER]_vars

\* C8 amended: in every Dragged tick the velocity after the tick is (position
\* reported in this tick - position stored for the body) / delta_time *
\* THROW_MULTIPLIER, without gravity or friction, and the reported position is
\* stored; so the velocity is the claimed one whenever the stored position is the
\* position reported in the previous tick, as it is after a Dragged tick.
C8_ThrowFromStored ==
    [][\A hwnd \in Hwnds :
          VisitsDragged(hwnd) =>
              LET state == managed_windows[hwnd]
                  win == os_windows[hwnd]
                  after == managed_windows'[hwnd]
              IN  /\ after.vx = (win.left * SCALE - state.last_x) * THROW_MULTIPLIER
                  /\ after.vy = (win.top * SCALE - state.last_y) * THROW_MULTIPLIER
                  /\ after.last_x = win.left * SCALE
                  /\ after.last_y = win.top * SCALE
                  /\ (state.last_x = reported[hwnd][1] * SCALE
                        => after.vx = (win.left - reported[hwnd][1]) * SCALE * THROW_MULTIPLIER)
                  /\ (state.last_y = reported[hwnd][2] * SCALE
                        => after.vy = (win.top - reported[hwnd][2]) * SCALE * THROW_MULTIPLIER)]_vars

\* C8 witness: a Dragged body has been visited and has the velocity of a window
\* that was 3 pixels higher and 1 pixel further left one tick ago.
C8_Witness ==
    /\ pc \in {"physics", "sleep"}
    /\ \E hwnd \in Tracked \ todo :
          /\ managed_windows[hwnd].is_user_controlled
          /\ managed_windows[hwnd].vx = 1 * SCALE * THROW_MULTIPLIER
          /\ managed_windows[hwnd].vy = 3 * SCALE * THROW_MULTIPLIER
          /\ managed_windows[hwnd].last_x = reported[hwnd][1] * SCALE
          /\ managed_windows[hwnd].last_y = reported[hwnd][2] * SCALE

\* C9: the iteration of the physics loop for a Falling body calls moveTo if and
\* only if the truncated clamped position differs, in x or in y, from the position
\* the window reports in that iteration; a move that does not raise puts the
\* window at the truncated clamped position, and no other window is touched.
C9_MoveOnlyWhenElsewhere ==
    [][\A hwnd \in Hwnds :
          VisitsFalling(hwnd) =>
              LET win == os_windows[hwnd]
                  f == Falling(managed_windows[hwnd], win)
                  x == f.clamped_x \div SCALE
                  y == f.clamped_y \div SCALE
                  after == os_windows'[hwnd]
              IN  /\ hwnd \notin moved
                  /\ hwnd \in moved' <=> (win.left /= x \/ win.top /= y)
                  /\ moved' \ {hwnd} = moved
                  /\ \A other \in Hwnds \ {hwnd} : os_windows'[other] = os_windows[other]
                  /\ hwnd \notin moved' => after = win
                  /\ hwnd \in moved' /\ after.open =>
                        after = [win EXCEPT !.left = x, !.top = y]
                  /\ after.open =>
                        /\ managed_windows'[hwnd].last_x \div SCALE = x
                        /\ managed_windows'[hwnd].last_y \div SCALE = y]_vars

\* C9 witness: in one tick a Falling body that advanced by less than a pixel was
\* visited without a move, and another Falling body was moved.
C9_Witness ==
    /\ pc = "sleep"
    /\ \E hwnd \in Tracked \ moved :
          /\ ~managed_windows[hwnd].is_user_controlled
          /\ os_windows[hwnd].open
          /\ managed_windows[hwnd].vy > 0
          /\ managed_windows[hwnd].last_y > os_windows[hwnd].top * SCALE
    /\ \E hwnd \in Tracked \cap moved : os_windows[hwnd].open

\* C10 as claimed: a Falling body with vertical velocity v > 0 whose candidate
\* position reaches the bottom edge leaves the tick with vertical velocity
\* -0.4 * v (to the rounding of one unit) at y = screen_height - height.
C10_BounceOfOldVelocity ==
    [][\A hwnd \in Hwnds :
          LET state == managed_windows[hwnd]
              win == os_windows[hwnd]
          IN  /\ VisitsFalling(hwnd)
              /\ state.vy > 0
              /\ state.last_y + state.vy + GRAVITY + win.height * SCALE
                    >= screen_height * SCALE
              => /\ Abs(BOUNCE_DEN * managed_windows'[hwnd].vy
                          - BOUNCE_Y_NUM * state.vy) <= BOUNCE_DEN \div 2
                 /\ managed_windows'[hwnd].last_y = (screen_height - win.height) * SCALE]_vars

\* C10 amended: a Falling body with vertical velocity v whose candidate position
\* reaches the bottom edge leaves the tick with vertical velocity
\* -0.4 * (v + GRAVITY * delta_time) (to the rounding of one unit); its clamped
\* position, stored unless the move raised, is y = max(0, screen_height - height),
\* which is screen_height - height when the window is no taller than the screen.
C10_BounceOfNewVelocity ==
    [][\A hwnd \in Hwnds :
          LET state == managed_windows[hwnd]
              win == os_windows[hwnd]
          IN  /\ VisitsFalling(hwnd)
              /\ state.last_y + state.vy + GRAVITY + win.height * SCALE
                    >= screen_height * SCALE
              => /\ Abs(BOUNCE_DEN * managed_windows'[hwnd].vy
                          - BOUNCE_Y_NUM * (state.vy + GRAVITY)) <= BOUNCE_DEN \div 2
                 /\ os_windows'[hwnd].open =>
                       /\ managed_windows'[hwnd].last_y
                             = Max(0, (screen_height - win.height) * SCALE)
                       /\ (win.height <= screen_height =>
                             managed_windows'[hwnd].last_y
                                = (screen_height - win.height) * SCALE)]_vars

\* C10 witness: a window that fell from the top of the screen for three ticks has
\* been moved to the bottom edge, and its body rises with 0.4 of the velocity it
\* arrived with.
C10_Witness ==
    /\ pc = "sleep"
    /\ \E hwnd \in Tracked \cap moved :
          /\ ~managed_windows[hwnd].is_user_controlled
          /\ os_windows[hwnd].open
          /\ os_windows[hwnd].height = 2
          /\ os_windows[hwnd].top = screen_height - 2
          /\ managed_windows[hwnd].last_y = (screen_height - 2) * SCALE
          /\ 10 * managed_windows[hwnd].vy = -4 * 3 * GRAVITY


\* the y position, in 1/SCALE pixel, after n ticks of free fall from rest:
\* y0 + gravity * delta_time^2 * n (n + 1) / 2
FreeFallY(cfg, n) == Px(cfg.top) + cfg.gravity * ((n * (n + 1)) \div 2)

\* n ticks of free fall from rest touch no edge of the screen
NoEdgeWithin(cfg, n) ==
    /\ ~HitsEdge(Px(cfg.left), cfg.width, cfg.screen_width)
    /\ \A k \in 1..n : ~HitsEdge(FreeFallY(cfg, k), cfg.height, cfg.screen_height)

\* C11: a body that falls from rest and touches no edge of the screen has, after
\* n ticks, the vertical velocity n * gravity * delta_time and the y position
\* y0 + gravity * delta_time^2 * n (n + 1) / 2, and its x position is the first
\* one; on the screen 1920x1080 a window 400x300 that starts at (760, 0) with
\* gravity 1200 is after 30 ticks at a y within 150 +/- 5 and at x = 760.
C11_FreeFall ==
    LET state == managed_windows[1]
    IN  /\ NoEdgeWithin(scenario, queries) =>
              /\ state.vy = queries * scenario.gravity
              /\ state.last_y = FreeFallY(scenario, queries)
              /\ state.vx = 0
              /\ state.last_x = Px(scenario.left)
        /\ (scenario.gravity = 1200 /\ queries = 30) =>
              /\ Px(150 - 5) <= state.last_y
              /\ state.last_y <= Px(150 + 5)
              /\ state.last_x = Px(760)
              /\ os_windows[1].left = 760
              /\ os_windows[1].top = Trunc(state.last_y)

\* the window of the screen 1920x1080 with gravity 1200 has fallen for 30 ticks,
\* and has touched no edge
C11_Witness ==
    /\ scenario.gravity = 1200
    /\ queries = 30
    /\ NoEdgeWithin(scenario, queries)
    /\ managed_windows[1].vy = 30 * 1200
    /\ os_windows[1].top > 0

\* the body of hwnd lies at the bottom edge and this tick's candidate position
\* does not leave it: the window is no taller than the screen, the stored
\* position is screen_height - height and the velocity after gravity points down
RestsAtFloor(hwnd) ==
    /\ os_windows[hwnd].height <= screen_height
    /\ managed_windows[hwnd].last_y = Px(screen_height - os_windows[hwnd].height)
    /\ managed_windows[hwnd].vy + GRAVITY >= 0

\* C12 as claimed: a Falling body that rests at the bottom edge after a
\* reflection (its velocity points up from the bounce) leaves every tick with a
\* vertical velocity of strictly smaller magnitude, or with none.
C12_MagnitudeDecreases ==
    [][\A hwnd \in Hwnds :
          /\ VisitsFalling(hwnd)
          /\ RestsAtFloor(hwnd)
          /\ managed_windows[hwnd].vy < 0
          => \/ Abs(managed_windows'[hwnd].vy) < Abs(managed_windows[hwnd].vy)
             \/ managed_windows'[hwnd].vy = 0]_vars

\* C12 amended: a Falling body that rests at the bottom edge leaves every tick
\* with the vertical velocity -0.4 * (v + GRAVITY * delta_time) and, unless its
\* move raised, at the bottom edge again; the distance of the velocity from
\* -(2/7) * GRAVITY * delta_time shrinks to 0.4 of itself (to the rounding of one
\* unit), whether the magnitude of the velocity grows or not.
C12_VelocitySettles ==
    [][\A hwnd \in Hwnds :
          LET v == managed_windows[hwnd].vy
              w == managed_windows'[hwnd].vy
          IN  VisitsFalling(hwnd) /\ RestsAtFloor(hwnd) =>
                 /\ w = MulFrac(v + GRAVITY, BOUNCE_Y_NUM, BOUNCE_DEN)
                 /\ 10 * Abs(7 * w + 2 * GRAVITY) <= 4 * Abs(7 * v + 2 * GRAVITY) + 35
                 /\ w <= 0
                 /\ os_windows'[hwnd].open =>
                       managed_windows'[hwnd].last_y = managed_windows[hwnd].last_y]_vars

\* C12 witness: a window found at rest at the bottom edge has been reflected three
\* times: -0.4, -0.24 and then -0.304 of GRAVITY * delta_time, a magnitude that
\* has grown again.
C12_Witness ==
    /\ pc = "sleep"
    /\ \E hwnd \in Tracked :
          /\ os_windows[hwnd].open
          /\ os_windows[hwnd].height <= screen_height
          /\ managed_windows[hwnd].last_y = Px(screen_height - os_windows[hwnd].height)
          /\ 1000 * managed_windows[hwnd].vy = -304 * GRAVITY

\* the simulation thread has ended, by the loop test (line 43) or by an exception
Terminated == pc \in {"done", "crashed"}

\* C13: once running is false the loop finishes the tick it is in, every body of
\* that tick processed, and ends at the loop test without another tick; the mouse
\* listener is stopped only after the simulation thread has ended.
C13_FinishesTick ==
    /\ ~running /\ Terminated => pc = "done" /\ todo = {}
    /\ listener = "off" => ~running /\ Terminated

\* the step is the physics loop's iteration for hwnd, and it finds the window of
\* hwnd gone: a read of the window or the move raises
Fails(hwnd) ==
    /\ pc = "physics"
    /\ hwnd \in todo
    /\ ~os_windows'[hwnd].open
    /\ hwnd \notin todo' \/ pc' = "crashed"

\* C14: a failure that concerns the window of one body (its move or a read of its
\* position or size raises) ends that body's iteration only: the loop goes on
\* with the other bodies of the tick or to the sleep of line 123, and the body
\* stays tracked.
C14_FailureIsScoped ==
    [][\A hwnd \in Hwnds :
          Fails(hwnd) =>
              /\ pc' = AfterBody(hwnd)
              /\ todo' = todo \ {hwnd}
              /\ hwnd \in Tracked']_vars

\* the bodies whose control mode this tick has set: all of them once the loop
\* of lines 73-75 is over, the ones it has passed while it runs
Decided == IF pc = "modes" THEN Tracked \ todo ELSE Tracked

\* C15: the control modes that one tick sets follow from one value of
\* is_mouse_down, also when on_click changes the flag between two iterations of
\* the loop: line 75 reads the flag for the body of the active window only.  The
\* flag changes only in steps of on_click, which leave the variables of the
\* simulation thread alone, and managed_windows changes only in steps of the
\* simulation thread, which leave the flag alone.
C15_OneFlagValuePerTick ==
    [][/\ \A hwnd \in Hwnds :
              Decides(hwnd) =>
                  \E down \in BOOLEAN :
                      \A other \in Decided \cup {hwnd} :
                          managed_windows'[other].is_user_controlled
                              <=> (other = active_hwnd /\ down)
       /\ is_mouse_down' /= is_mouse_down =>
              /\ listener = "on"
              /\ UNCHANGED <<sim_vars, os_vars, running>>
       /\ managed_windows' /= managed_windows =>
              /\ pc \in {"sync", "modes", "physics"}
              /\ is_mouse_down' = is_mouse_down]_vars

\* C15 witness: the loop of lines 73-75 has set the mode of the active window's
\* body while the mouse was up, the mouse is down now, and the loop has another
\* body to go.
C15_Witness ==
    /\ pc = "modes"
    /\ todo /= {}
    /\ active_hwnd \in Tracked \ todo
    /\ is_mouse_down
    /\ ~managed_windows[active_hwnd].is_user_controlled

\* C16: the step of lines 50-67 changes which hwnds are tracked and nothing else
\* of the registry: a body tracked before it whose hwnd is in the snapshot is
\* tracked after it with the same position, velocity and control mode, and no
\* window is moved.
C16_SyncKeepsBodies ==
    [][pc = "sync" /\ pc' /= "sync" =>
          /\ \A hwnd \in Tracked \cap current_windows :
                /\ hwnd \in Tracked'
                /\ managed_windows'[hwnd] = managed_windows[hwnd]
          /\ os_windows' = os_windows
          /\ moved' = moved]_vars

\* C16 witness: the step of lines 50-67 has just dropped one body and kept
\* another, one that a tick has given a velocity.
C16_Witness ==
    /\ pc = "control"
    /\ \E hwnd \in Hwnds : <<"closed", hwnd>> \in printed
    /\ \E hwnd \in Tracked : managed_windows[hwnd].vy /= 0

\* C17: every tick in which the body of hwnd is Falling leaves the clamped
\* position of lines 108-109 as the body's last position, whether the window was
\* moved or not and whether the move raised or not.
C17_StoresClamped ==
    [][\A hwnd \in Hwnds :
          VisitsFalling(hwnd) =>
              LET f == Falling(managed_windows[hwnd], os_windows[hwnd])
              IN  /\ managed_windows'[hwnd].last_x = f.clamped_x
                  /\ managed_windows'[hwnd].last_y = f.clamped_y]_vars

\* C18: a Falling tick multiplies the horizontal velocity (after friction) by
\* -0.5 exactly when the candidate x, before clamping, is <= 0 or candidate x +
\* width >= screen_width, and the vertical velocity (after gravity) by -0.4
\* exactly when the candidate y is <= 0 or candidate y + height >=
\* screen_height; a body whose candidate overshoots an edge is reflected in the
\* same tick.
C18_ReflectsOnCandidate ==
    [][\A hwnd \in Hwnds :
          VisitsFalling(hwnd) =>
              LET state == managed_windows[hwnd]
                  win == os_windows[hwnd]
                  vx1 == MulFrac(state.vx, FRICTION_NUM, FRICTION_DEN)
                  vy1 == state.vy + GRAVITY
                  candidate_x == state.last_x + vx1
                  candidate_y == state.last_y + vy1
                  hits_x == \/ candidate_x <= 0
                            \/ candidate_x + win.width * SCALE >= screen_width * SCALE
                  hits_y == \/ candidate_y <= 0
                            \/ candidate_y + win.height * SCALE >= screen_height * SCALE
              IN  /\ managed_windows'[hwnd].vx =
                        IF hits_x THEN MulFrac(vx1, BOUNCE_X_NUM, BOUNCE_DEN) ELSE vx1
                  /\ managed_windows'[hwnd].vy =
                        IF hits_y THEN MulFrac(vy1, BOUNCE_Y_NUM, BOUNCE_DEN) ELSE vy1]_vars

\* C18 witness: a window thrown to the left from x = -1 has been put back at
\* x = 0 by its first Falling tick, and its body already moves to the right; the
\* candidate y touched no edge and the body falls on.
C18_Witness ==
    \E hwnd \in Tracked :
        /\ hwnd \notin todo
        /\ reported[hwnd][3] = "falling"
        /\ reported[hwnd][1] < 0
        /\ managed_windows[hwnd].last_x = 0
        /\ managed_windows[hwnd].vx > 0
        /\ managed_windows[hwnd].vy > 0

\* C19: the first Falling tick of a body after a Dragged tick starts from the
\* position that the last Dragged tick read from the window and the velocity it
\* estimated, whatever came before: the vertical velocity becomes the estimate +
\* GRAVITY * delta_time and the horizontal one the estimate * FRICTION, either
\* one then reflected or not, and the position stored (unless the move raised)
\* is the clamped candidate: the recorded position + the new velocity *
\* delta_time.
C19_ThrowOnRelease ==
    [][\A hwnd \in Hwnds :
          VisitsFalling(hwnd) /\ reported[hwnd][3] = "dragged" =>
              LET estimate == managed_windows[hwnd]
                  win == os_windows[hwnd]
                  vx1 == MulFrac(estimate.vx, FRICTION_NUM, FRICTION_DEN)
                  vy1 == estimate.vy + GRAVITY
                  candidate_x == Px(reported[hwnd][1]) + vx1
                  candidate_y == Px(reported[hwnd][2]) + vy1
                  after == managed_windows'[hwnd]
              IN  /\ after.vx \in {vx1, MulFrac(vx1, BOUNCE_X_NUM, BOUNCE_DEN)}
                  /\ after.vy \in {vy1, MulFrac(vy1, BOUNCE_Y_NUM, BOUNCE_DEN)}
                  /\ os_windows'[hwnd].open =>
                        /\ after.last_x
                              = Max(0, Min(candidate_x, Px(screen_width - win.width)))
                        /\ after.last_y
                              = Max(0, Min(candidate_y, Px(screen_height - win.height)))]_vars

\* C19 witness: a window dragged from (0, 0) to (1, 3) in one tick and released
\* has made its first Falling tick: it moves right with 0.98 of the estimated
\* 1 pixel per tick, and has bounced off the bottom edge with -0.4 of the
\* estimated 3 pixels per tick + GRAVITY * delta_time.
C19_Witness ==
    /\ pc = "sleep"
    /\ \E hwnd \in Tracked :
          /\ reported[hwnd][3] = "falling"
          /\ os_windows[hwnd].open
          /\ managed_windows[hwnd].vx = Rub(Px(1))
          /\ managed_windows[hwnd].vy = BounceY(Px(3) + GRAVITY)
          /\ managed_windows[hwnd].last_x = Px(1) + Rub(Px(1))
          /\ managed_windows[hwnd].last_y = Px(screen_height - os_windows[hwnd].height)

\* the bodies that are Dragged
DraggedBodies == {hwnd \in Tracked : managed_windows[hwnd].is_user_controlled}

\* C20 as claimed: in every reachable state at most one tracked body is Dragged.
C20_AtMostOneDragged == Cardinality(DraggedBodies) <= 1

\* C20 amended: at most one tracked body is Dragged whenever the loop of lines
\* 73-75 is not under way, and so in every iteration of the physics loop; while
\* it is under way at most one of the bodies it has passed is Dragged, and a body
\* it has yet to pass may still be Dragged from the tick before.
C20_AtMostOneDraggedInPhysics ==
    /\ pc /= "modes" => Cardinality(DraggedBodies) <= 1
    /\ pc = "modes" => Cardinality(DraggedBodies \cap Decided) <= 1

\* C20 witness: the physics loop starts with two bodies, one Dragged and one that
\* was Dragged in the tick before and is Falling now.
C20_Witness ==
    /\ pc = "physics"
    /\ todo = Tracked
    /\ \E hwnd, other \in Tracked :
          /\ hwnd /= other
          /\ managed_windows[hwnd].is_user_controlled
          /\ ~managed_windows[other].is_user_controlled
          /\ reported[other][3] = "dragged"

\* C21: a tick in which the body of hwnd is Falling leaves its horizontal
\* velocity with a magnitude no larger than before (FRICTION and the factor of
\* the side bounce only shrink it); the horizontal speed of a body that stays
\* tracked grows in no step but the iteration of a Dragged body.
C21_FallingNeverSpeedsUp ==
    [][\A hwnd \in Hwnds :
          /\ VisitsFalling(hwnd) =>
                Abs(managed_windows'[hwnd].vx) <= Abs(managed_windows[hwnd].vx)
          /\ /\ hwnd \in Tracked \cap Tracked'
             /\ Abs(managed_windows'[hwnd].vx) > Abs(managed_windows[hwnd].vx)
             => VisitsDragged(hwnd)]_vars

\* C21 witness: a window thrown to the right with 1 pixel per tick has made two
\* Falling ticks, two times slowed by FRICTION and then turned round at half
\* the speed by the right edge.
C21_Witness ==
    /\ pc = "sleep"
    /\ \E hwnd \in Tracked :
          /\ reported[hwnd][3] = "falling"
          /\ managed_windows[hwnd].vx = BounceX(Rub(Rub(Px(1))))
          /\ managed_windows[hwnd].vx < 0

\* the body of window 1 is at y = screen_height - height
AtFloor ==
    managed_windows[1].last_y = Px(scenario.screen_height - scenario.height)

\* the body of window 1 moves no faster, up or down, than gravity * delta_time
Slow == Abs(managed_windows[1].vy) <= scenario.gravity

\* C22: a body whose window stays, fits on the screen and is left alone reaches
\* y = screen_height - height and then keeps it in every later tick; a tick that
\* finds the body there with a vertical velocity of at most gravity * delta_time
\* leaves it there, with such a velocity again.
C22_SettlesOnFloor ==
    /\ <>[]AtFloor
    /\ [][AtFloor /\ Slow => AtFloor' /\ Slow']_vars

\* C22 witness: a body that started above the bottom edge lies there, its
\* velocity the same from tick to tick (-0.4 of itself + gravity * delta_time).
C22_Witness ==
    /\ Px(scenario.top) < Px(scenario.screen_height - scenario.height)
    /\ AtFloor
    /\ Slow
    /\ managed_windows[1].vy < 0
    /\ managed_windows[1].vy
          = BounceY(Gravitate(managed_windows[1].vy, scenario.gravity))
    /\ os_windows[1].top = scenario.screen_height - scenario.height

====
